---------------------------- MODULE Spec2Model ----------------------------
(***************************************************************************)
(* libxm-rs: the Rust binding (src/src/lib.rs, src/build.rs) over the      *)
(* native XM playback engine.  The binding is modelled from its source.    *)
(* The engine behind the ffi module (xm_* functions) is not part of the    *)
(* source tree at hand; its sequencer, counters, mute flags and name       *)
(* getters are modelled from the specification (sections 3, 4.2, 6).       *)
(***************************************************************************)
EXTENDS Integers, Sequences, FiniteSets, TLC

\* ------------------------------------------------------------------ bounds

\* Cap on the frames one context generates under Spec.
MaxSamples == 3
\* Largest output buffer length (in f32 values) a caller passes under Spec.
MaxBufLen == 4
\* Cap on the frames one context generates under LoopSpec (long playback).
MaxLoopSamples == 300
\* Largest index (pattern, instrument, sample, channel) a caller passes.
MaxIndex == 3
\* Largest loop limit a caller sets.
MaxLoopLimit == 2

\* ------------------------------------------------------- program constants

\* loop_count() and set_max_loop_count() carry a u8.
U8 == 256
\* The module name field of the XM header is 20 bytes long.
NAME_LEN == 20

NoCtx == [null |-> TRUE]

Min(a, b) == IF a < b THEN a ELSE b

\* a sequence of n copies of v
Fill(n, v) == [i \in 1..n |-> v]

\* --------------------------------------------------------------- build.rs

\* The values the environment variable XM_STRINGS can have at build time.
EnvValues == {"unset", "0", "1", "yes"}

\* build.rs parse_env: "0" is false, "1" is true, anything else (or an unset
\* variable) is the default.
parse_env(val, default) ==
    CASE val = "0" -> FALSE
      [] val = "1" -> TRUE
      [] OTHER -> default

\* build.rs: let strings = parse_env("XM_STRINGS", true), passed on as the
\* engine's XM_STRINGS define.
strings(env) == parse_env(env, TRUE)

\* ------------------------------------------------------------ module data

\* Byte values: 0 is NUL, 32 a space, 65 and 66 letters.
NameZeroPadded == [i \in 1..NAME_LEN |-> IF i <= 2 THEN 64 + i ELSE 0]
NameSpacePadded == [i \in 1..NAME_LEN |-> IF i <= 3 THEN 64 + i ELSE 32]
NameEmbeddedZero == [i \in 1..NAME_LEN |-> IF i = 2 THEN 0 ELSE 65]

\* Songs a sane module image can hold (spec section 3): channel count,
\* pattern order table, rows of each pattern, samples of each instrument,
\* ticks per row and BPM.
Songs ==
    { [name |-> NameZeroPadded, channels |-> 1, length |-> 1, restart |-> 0,
       pattern_order |-> <<0>>, rows |-> <<1>>, instruments |-> <<1>>,
       tempo |-> 1, bpm |-> 125],
      [name |-> NameSpacePadded, channels |-> 2, length |-> 2, restart |-> 1,
       pattern_order |-> <<1, 0>>, rows |-> <<2, 1>>, instruments |-> <<2, 0>>,
       tempo |-> 2, bpm |-> 125],
      [name |-> NameEmbeddedZero, channels |-> 1, length |-> 2, restart |-> 0,
       pattern_order |-> <<0, 0>>, rows |-> <<1>>, instruments |-> <<>>,
       tempo |-> 1, bpm |-> 125] }

\* Output rates (Hz) a caller asks for: with 125 BPM one tick lasts 1 frame at
\* 50 Hz and 1.5 frames at 75 Hz.
Rates == {50, 75}

\* Result codes xm_create_context_safe can report: 0 success, 1 module data not
\* sane, 2 memory allocation failed, others from other engine versions.
Codes == {-1, 0, 1, 2, 3}

\* ------------------------------------------------- engine (from the spec)

\* The pattern the order table names at index i; the table is padded with
\* zeros up to 256 entries.
PatternAt(song, i) ==
    IF i < song.length THEN song.pattern_order[i + 1] ELSE 0

\* Rows of pattern p (0 for a pattern the module does not hold).
RowsOf(song, p) ==
    IF p < Len(song.rows) THEN song.rows[p + 1] ELSE 0

\* The playback context a successful load produces.
xm_create_context(song, rate) ==
    [ null |-> FALSE, song |-> song, rate |-> rate,
      current_table_index |-> 0, current_row |-> 0, current_tick |-> 0,
      remaining |-> 0,
      generated_samples |-> 0, loop_count |-> 0, max_loop_count |-> 0,
      channel_muted |-> [c \in 1..song.channels |-> FALSE],
      instrument_muted |-> [i \in 1..Len(song.instruments) |-> FALSE],
      latest_trigger |-> 0 ]

\* Silence after exhaustion: max_loop_count > 0 and loop_count >= max_loop_count.
Silent(c) == c.max_loop_count > 0 /\ c.loop_count >= c.max_loop_count

\* The sequencer finishes a tick: next tick of the row, next row, next order
\* table entry; past the last entry the cursor jumps to restart_position and
\* loop_count (8 bits wide) increments.
xm_tick_done(c) ==
    LET song == c.song
        t == c.current_tick + 1
    IN  IF t < song.tempo THEN [c EXCEPT !.current_tick = t]
        ELSE LET r == c.current_row + 1
             IN  IF r < RowsOf(song, PatternAt(song, c.current_table_index))
                 THEN [c EXCEPT !.current_tick = 0, !.current_row = r]
                 ELSE LET p == c.current_table_index + 1
                      IN  IF p < song.length
                          THEN [c EXCEPT !.current_tick = 0, !.current_row = 0,
                                         !.current_table_index = p]
                          ELSE [c EXCEPT !.current_tick = 0, !.current_row = 0,
                                         !.current_table_index = song.restart,
                                         !.loop_count = (c.loop_count + 1) % U8]

\* Whether the song triggers a voice: every row of the songs above that have
\* an instrument with a sample carries a note for instrument 1, sample 0, on
\* channel 1.
HasVoice(song) ==
    Len(song.instruments) >= 1 /\ song.instruments[1] >= 1

\* The first (or only) tick of a row starts: the note of the row triggers its
\* voice, which stamps the trigger time with the frames generated so far.
xm_tick_start(c) ==
    LET s == [c EXCEPT !.remaining = c.remaining + 5 * c.rate]
    IN  IF c.current_tick = 0 /\ HasVoice(c.song)
        THEN [s EXCEPT !.latest_trigger = c.generated_samples]
        ELSE s

\* One output frame.  A tick lasts rate * 2.5 / bpm frames, kept with a
\* fractional accumulator: `remaining` counts in units of 1/(2*bpm) frame.
\* The frame is silence when the loop limit is reached, the mix otherwise;
\* generated_samples counts it either way.
xm_sample(c, mix) ==
    LET started == IF c.remaining <= 0 THEN xm_tick_start(c) ELSE c
        played == [started EXCEPT !.remaining = started.remaining - 2 * c.song.bpm,
                                  !.generated_samples = c.generated_samples + 1]
        frame == IF Silent(started) THEN 0 ELSE mix
    IN  [ctx |-> IF played.remaining <= 0 THEN xm_tick_done(played) ELSE played,
         frame |-> frame]

\* xm_generate_samples: numsamples frames, two values (left, right) each;
\* generated_samples grows by numsamples; reports the frames written.
RECURSIVE xm_frames(_, _, _)
xm_frames(c, numsamples, mix) ==
    IF numsamples = 0 THEN [ctx |-> c, out |-> <<>>]
    ELSE LET one == xm_sample(c, mix)
             rest == xm_frames(one.ctx, numsamples - 1, mix)
         IN  [ctx |-> rest.ctx,
              out |-> <<one.frame, one.frame>> \o rest.out]

xm_generate_samples(c, numsamples, mix) ==
    LET r == xm_frames(c, numsamples, mix)
    IN  [ctx |-> r.ctx, out |-> r.out, ret |-> numsamples]

xm_set_max_loop_count(c, loopcnt) == [c EXCEPT !.max_loop_count = loopcnt]

xm_get_loop_count(c) == c.loop_count

xm_get_number_of_channels(c) == c.song.channels
xm_get_module_length(c) == c.song.length
xm_get_number_of_patterns(c) == Len(c.song.rows)
xm_get_number_of_rows(c, pattern) == RowsOf(c.song, pattern)
xm_get_number_of_instruments(c) == Len(c.song.instruments)
xm_get_number_of_samples(c, instrument) == c.song.instruments[instrument]

\* The position the engine reports: order table index, pattern, row, frames.
xm_get_position(c) ==
    [pattern_index |-> c.current_table_index,
     pattern |-> PatternAt(c.song, c.current_table_index),
     row |-> c.current_row,
     samples |-> c.generated_samples]

\* Trigger times for introspection: of an instrument, of a sample of it, of a
\* channel (0 when never triggered).
xm_get_latest_trigger_of_instrument(c, instrument) ==
    IF instrument = 1 /\ HasVoice(c.song) THEN c.latest_trigger ELSE 0

xm_get_latest_trigger_of_sample(c, instrument, sample) ==
    IF instrument = 1 /\ sample = 0 /\ HasVoice(c.song) THEN c.latest_trigger ELSE 0

xm_get_latest_trigger_of_channel(c, channel) ==
    IF channel = 1 /\ HasVoice(c.song) THEN c.latest_trigger ELSE 0

\* Best-effort seek: the cursor is set to what the caller names.
xm_seek(c, pot, row, tick) ==
    [c EXCEPT !.current_table_index = pot, !.current_row = row,
              !.current_tick = tick, !.remaining = 0]

\* Mute or unmute; reports the previous flag.
xm_mute_channel(c, channel, mute) ==
    IF channel \in DOMAIN c.channel_muted
    THEN [ctx |-> [c EXCEPT !.channel_muted[channel] = mute],
          ret |-> c.channel_muted[channel]]
    ELSE [ctx |-> c, ret |-> FALSE]

xm_mute_instrument(c, instrument, mute) ==
    IF instrument \in DOMAIN c.instrument_muted
    THEN [ctx |-> [c EXCEPT !.instrument_muted[instrument] = mute],
          ret |-> c.instrument_muted[instrument]]
    ELSE [ctx |-> c, ret |-> FALSE]

\* The module name as a C string: the 20 bytes of the header field and a
\* terminating NUL when strings are retained, a null pointer otherwise.
xm_get_module_name(c, retained) ==
    IF retained THEN [null |-> FALSE, bytes |-> c.song.name \o <<0>>]
    ELSE [null |-> TRUE, bytes |-> <<>>]

\* ------------------------------------------------ the binding (lib.rs)

\* What a call of the binding leaves behind: the context, the value returned,
\* whether an assertion failed (a panic), the engine functions called in order,
\* and the caller's output buffer.
Returned(c, ret, ffi) ==
    [ctx |-> c, ret |-> ret, panicked |-> FALSE, ffi |-> ffi, out |-> <<>>]

Panicked(c, ffi) ==
    [ctx |-> c, ret |-> "panic", panicked |-> TRUE, ffi |-> ffi, out |-> <<>>]

\* The arguments of a call are a record, one field per parameter after the
\* context; NoArgs when there is none.
NoArgs == [none |-> TRUE]

Ffi(fn, args) == [fn |-> fn, args |-> args]

\* XMContext::new with the error codes 1 and 2 exchanged
new_result_swapped(result, rawp) ==
    CASE result = 0 -> [tag |-> "Ok", ctx |-> rawp]
      [] result = 1 -> [tag |-> "Err", err |-> "MemoryAllocationFailed"]
      [] result = 2 -> [tag |-> "Err", err |-> "ModuleDataNotSane"]
      [] OTHER -> [tag |-> "Err", err |-> "Unknown", code |-> result]

\* XMContext::new: the match on the engine's result code.
new_result(result, rawp) ==
    CASE result = 0 -> [tag |-> "Ok", ctx |-> rawp]
      [] result = 1 -> [tag |-> "Err", err |-> "ModuleDataNotSane"]
      [] result = 2 -> [tag |-> "Err", err |-> "MemoryAllocationFailed"]
      [] OTHER -> [tag |-> "Err", err |-> "Unknown", code |-> result]

\* generate_samples handing the engine the buffer length as the frame count
output_len_whole(len) == len

\* generate_samples: let output_len = (output.len() / 2) as size_t.
output_len(len) == len \div 2

\* generate_samples returning the engine's frame count as it is
samples_as_usize_frames(samples) == samples

\* generate_samples: (samples * 2) as usize.
samples_as_usize(samples) == samples * 2

\* What an output buffer holds before the call: a value the engine never writes.
Stale == 2

\* generate_samples: the assertion, the engine call on the raw buffer, the
\* return value.  The engine writes two values per frame from the start of
\* the buffer; what it does not write keeps the caller's stale content.
generate_samples(c, len, mix) ==
    IF len % 2 # 0 THEN Panicked(c, <<>>)
    ELSE LET n == output_len(len)
             r == xm_generate_samples(c, n, mix)
             written == Min(Len(r.out), len)
         IN  [ctx |-> r.ctx, ret |-> samples_as_usize(r.ret), panicked |-> FALSE,
              ffi |-> <<Ffi("xm_generate_samples", [numsamples |-> n])>>,
              out |-> SubSeq(r.out, 1, written) \o Fill(len - written, Stale)]

set_max_loop_count(c, loopcnt) ==
    Returned(xm_set_max_loop_count(c, loopcnt), "unit",
             <<Ffi("xm_set_max_loop_count", [loopcnt |-> loopcnt])>>)

loop_count(c) ==
    Returned(c, xm_get_loop_count(c), <<Ffi("xm_get_loop_count", NoArgs)>>)

\* CStr::to_bytes keeping the terminating NUL (to_bytes_with_nul)
to_bytes_with_nul(mem) ==
    LET nul == CHOOSE i \in 1..Len(mem) :
                   mem[i] = 0 /\ \A j \in 1..(i - 1) : mem[j] # 0
    IN  SubSeq(mem, 1, nul)

\* CStr::from_ptr(name).to_bytes(): the bytes before the first NUL.
to_bytes(mem) ==
    LET nul == CHOOSE i \in 1..Len(mem) :
                   mem[i] = 0 /\ \A j \in 1..(i - 1) : mem[j] # 0
    IN  SubSeq(mem, 1, nul - 1)

\* module_name: None for a null pointer, the C string's bytes otherwise.
module_name(c, retained) ==
    LET name == xm_get_module_name(c, retained)
    IN  Returned(c,
                 IF name.null THEN [some |-> FALSE, bytes |-> <<>>]
                 ELSE [some |-> TRUE, bytes |-> to_bytes(name.bytes)],
                 <<Ffi("xm_get_module_name", NoArgs)>>)

number_of_channels(c) ==
    Returned(c, xm_get_number_of_channels(c), <<Ffi("xm_get_number_of_channels", NoArgs)>>)

module_length(c) ==
    Returned(c, xm_get_module_length(c), <<Ffi("xm_get_module_length", NoArgs)>>)

number_of_patterns(c) ==
    Returned(c, xm_get_number_of_patterns(c), <<Ffi("xm_get_number_of_patterns", NoArgs)>>)

number_of_instruments(c) ==
    Returned(c, xm_get_number_of_instruments(c), <<Ffi("xm_get_number_of_instruments", NoArgs)>>)

\* number_of_rows with an off-by-one bound (<=)
number_of_rows_assert_le(c, pattern) == pattern <= number_of_patterns(c).ret

\* number_of_rows: assert!(pattern < self.number_of_patterns()).
number_of_rows_assert(c, pattern) == pattern < number_of_patterns(c).ret

number_of_rows(c, pattern) ==
    LET bound == number_of_patterns(c)
    IN  IF ~number_of_rows_assert(c, pattern) THEN Panicked(c, bound.ffi)
        ELSE Returned(c, xm_get_number_of_rows(c, pattern),
                      bound.ffi \o <<Ffi("xm_get_number_of_rows", [pattern |-> pattern])>>)

\* The two instrument assertions every instrument-taking method opens with:
\* assert!(instrument >= 1), then assert!(instrument <= self.number_of_instruments()).
\* The first failing assertion panics; the second calls the engine's getter.
instrument_asserts(c, instrument) ==
    IF ~(instrument >= 1) THEN [ok |-> FALSE, ffi |-> <<>>]
    ELSE [ok |-> instrument <= number_of_instruments(c).ret,
          ffi |-> number_of_instruments(c).ffi]

\* The two channel assertions: assert!(channel >= 1), then
\* assert!(channel <= self.number_of_channels()).
channel_asserts(c, channel) ==
    IF ~(channel >= 1) THEN [ok |-> FALSE, ffi |-> <<>>]
    ELSE [ok |-> channel <= number_of_channels(c).ret,
          ffi |-> number_of_channels(c).ffi]

number_of_samples(c, instrument) ==
    LET a == instrument_asserts(c, instrument)
    IN  IF ~a.ok THEN Panicked(c, a.ffi)
        ELSE Returned(c, xm_get_number_of_samples(c, instrument),
                      a.ffi \o <<Ffi("xm_get_number_of_samples", [instrument |-> instrument])>>)

playing_speed(c) ==
    Returned(c, [bpm |-> c.song.bpm, tempo |-> c.song.tempo],
             <<Ffi("xm_get_playing_speed", NoArgs)>>)

position(c) ==
    Returned(c, xm_get_position(c), <<Ffi("xm_get_position", NoArgs)>>)

latest_trigger_of_instrument(c, instrument) ==
    LET a == instrument_asserts(c, instrument)
    IN  IF ~a.ok THEN Panicked(c, a.ffi)
        ELSE Returned(c, xm_get_latest_trigger_of_instrument(c, instrument),
                      a.ffi \o <<Ffi("xm_get_latest_trigger_of_instrument", [instrument |-> instrument])>>)

\* latest_trigger_of_sample: assert!(sample < self.number_of_samples(instrument)),
\* reached with an instrument in range.
sample_assert(c, instrument, sample) ==
    LET n == number_of_samples(c, instrument)
    IN  [ok |-> sample < n.ret, ffi |-> n.ffi]

latest_trigger_of_sample(c, instrument, sample) ==
    LET a == instrument_asserts(c, instrument)
    IN  IF ~a.ok THEN Panicked(c, a.ffi)
        ELSE LET b == sample_assert(c, instrument, sample)
             IN  IF ~b.ok THEN Panicked(c, a.ffi \o b.ffi)
                 ELSE Returned(c, xm_get_latest_trigger_of_sample(c, instrument, sample),
                               a.ffi \o b.ffi \o
                               <<Ffi("xm_get_latest_trigger_of_sample", [instrument |-> instrument, sample |-> sample])>>)

latest_trigger_of_channel(c, channel) ==
    LET a == channel_asserts(c, channel)
    IN  IF ~a.ok THEN Panicked(c, a.ffi)
        ELSE Returned(c, xm_get_latest_trigger_of_channel(c, channel),
                      a.ffi \o <<Ffi("xm_get_latest_trigger_of_channel", [channel |-> channel])>>)

\* seek: no assertion; the arguments go to the engine as they are.
seek(c, pot, row, tick) ==
    Returned(xm_seek(c, pot, row, tick), "unit", <<Ffi("xm_seek", [pot |-> pot, row |-> row, tick |-> tick])>>)

mute_channel(c, channel, mute) ==
    LET a == channel_asserts(c, channel)
    IN  IF ~a.ok THEN Panicked(c, a.ffi)
        ELSE LET r == xm_mute_channel(c, channel, mute)
             IN  Returned(r.ctx, r.ret,
                          a.ffi \o <<Ffi("xm_mute_channel", [channel |-> channel, mute |-> mute])>>)

\* mute_instrument calling the engine's channel function
mute_instrument_ffi_channel(c, instrument, mute) ==
    [r |-> xm_mute_channel(c, instrument, mute),
     call |-> Ffi("xm_mute_channel", [channel |-> instrument, mute |-> mute])]

\* mute_instrument: the engine call, ffi::xm_mute_instrument(self.raw, instrument, mute).
mute_instrument_ffi(c, instrument, mute) ==
    [r |-> xm_mute_instrument(c, instrument, mute),
     call |-> Ffi("xm_mute_instrument", [instrument |-> instrument, mute |-> mute])]

mute_instrument(c, instrument, mute) ==
    LET a == instrument_asserts(c, instrument)
    IN  IF ~a.ok THEN Panicked(c, a.ffi)
        ELSE LET e == mute_instrument_ffi(c, instrument, mute)
             IN  Returned(e.r.ctx, e.r.ret, a.ffi \o <<e.call>>)

\* ------------------------------------------------------------------ state

VARIABLES
    env,        \* XM_STRINGS in the build environment (build.rs)
    raw,        \* XMContext.raw: the engine context the caller's XMContext owns
    last,       \* the latest call of the binding as the caller saw it
    mark,       \* frames asked for since position().samples was last read
    ch_set,     \* per channel, the flag the latest mute_channel call passed
    ins_set,    \* per instrument, the flag the latest mute_instrument call passed
    reached     \* loop_count() has equalled the loop limit since it was set

vars == <<env, raw, last, mark, ch_set, ins_set, reached>>

Unit == [unit |-> TRUE]

NoCall == [op |-> "none", args |-> NoArgs, ret |-> Unit, panicked |-> FALSE,
           ffi |-> <<>>, out |-> <<>>]

\* The value a call returns as the caller holds it: an integer (u8, u16, u64,
\* usize), a bool, (), a struct, or nothing when the call panicked.
RetSeen(op, r) ==
    IF r.panicked THEN [panic |-> TRUE]
    ELSE CASE op \in {"set_max_loop_count", "seek"} -> Unit
           [] op \in {"mute_channel", "mute_instrument"} -> [bool |-> r.ret]
           [] op \in {"module_name", "playing_speed", "position"} -> r.ret
           [] OTHER -> [int |-> r.ret]

\* The caller's view of a call: its name, its arguments and what it left.
Seen(op, args, r) ==
    [op |-> op, args |-> args, ret |-> RetSeen(op, r), panicked |-> r.panicked,
     ffi |-> r.ffi, out |-> r.out]

\* The loop limit is set, positive, and loop_count() equals it.
AtLimit(c) == c.max_loop_count > 0 /\ xm_get_loop_count(c) = c.max_loop_count

Init ==
    /\ env \in EnvValues
    /\ raw = NoCtx
    /\ last = NoCall
    /\ mark = [base |-> 0, frames |-> 0]
    /\ ch_set = <<>>
    /\ ins_set = <<>>
    /\ reached = FALSE

\* XMContext::new(mod_data, rate): the engine reports `code`, and sets the
\* context pointer only on success.
New(code, song, rate) ==
    /\ raw.null
    /\ LET rawp == IF code = 0 THEN xm_create_context(song, rate) ELSE NoCtx
           res == new_result(code, rawp)
       IN  /\ raw' = IF res.tag = "Ok" THEN res.ctx ELSE NoCtx
           /\ last' = [op |-> "new", args |-> [code |-> code], ret |-> res,
                       panicked |-> FALSE,
                       ffi |-> <<Ffi("xm_create_context_safe", [rate |-> rate])>>,
                       out |-> <<>>]
           /\ mark' = [base |-> 0, frames |-> 0]
           /\ ch_set' = IF res.tag = "Ok" THEN [c \in 1..song.channels |-> FALSE] ELSE <<>>
           /\ ins_set' = IF res.tag = "Ok"
                         THEN [i \in 1..Len(song.instruments) |-> FALSE] ELSE <<>>
           /\ reached' = FALSE
    /\ UNCHANGED env

\* Drop for XMContext: xm_free_context.
Drop ==
    /\ ~raw.null
    /\ raw' = NoCtx
    /\ last' = [NoCall EXCEPT !.op = "drop", !.ffi = <<Ffi("xm_free_context", NoArgs)>>]
    /\ mark' = [base |-> 0, frames |-> 0]
    /\ ch_set' = <<>>
    /\ ins_set' = <<>>
    /\ reached' = FALSE
    /\ UNCHANGED env

\* A call that changes none of the caller's records but `last`.
Getter(op, args, r) ==
    /\ raw' = r.ctx
    /\ last' = Seen(op, args, r)
    /\ reached' = (reached \/ AtLimit(r.ctx))
    /\ UNCHANGED <<env, mark, ch_set, ins_set>>

\* What the mixer can put out for a frame: 0 (nothing sounds), or 1 (a
\* non-zero value) when the song has a voice.
Mixes(c) == IF HasVoice(c.song) THEN {0, 1} ELSE {0}

GenerateWithin(cap, len, mix) ==
    /\ ~raw.null
    /\ mix \in Mixes(raw)
    /\ raw.generated_samples + len \div 2 <= cap
    /\ LET r == generate_samples(raw, len, mix)
       IN  /\ raw' = r.ctx
           /\ last' = Seen("generate_samples", [len |-> len], r)
           /\ mark' = IF r.panicked THEN mark
                      ELSE [mark EXCEPT !.frames = mark.frames + len \div 2]
           /\ reached' = (reached \/ AtLimit(r.ctx))
    /\ UNCHANGED <<env, ch_set, ins_set>>

GenerateSamples == \E len \in 0..MaxBufLen, mix \in {0, 1} :
    GenerateWithin(MaxSamples, len, mix)

SetMaxLoopCount == \E loopcnt \in 0..MaxLoopLimit :
    /\ ~raw.null
    /\ LET r == set_max_loop_count(raw, loopcnt)
       IN  /\ raw' = r.ctx
           /\ last' = Seen("set_max_loop_count", [loopcnt |-> loopcnt], r)
           /\ reached' = AtLimit(r.ctx)
    /\ UNCHANGED <<env, mark, ch_set, ins_set>>

LoopCount == ~raw.null /\ Getter("loop_count", NoArgs, loop_count(raw))

ModuleName == ~raw.null /\ Getter("module_name", NoArgs, module_name(raw, strings(env)))

NumberOfChannels == ~raw.null /\ Getter("number_of_channels", NoArgs, number_of_channels(raw))

ModuleLength == ~raw.null /\ Getter("module_length", NoArgs, module_length(raw))

NumberOfPatterns == ~raw.null /\ Getter("number_of_patterns", NoArgs, number_of_patterns(raw))

NumberOfRows == \E pattern \in 0..MaxIndex :
    ~raw.null /\ Getter("number_of_rows", [pattern |-> pattern], number_of_rows(raw, pattern))

NumberOfInstruments ==
    ~raw.null /\ Getter("number_of_instruments", NoArgs, number_of_instruments(raw))

NumberOfSamples == \E instrument \in 0..MaxIndex :
    ~raw.null /\ Getter("number_of_samples", [instrument |-> instrument], number_of_samples(raw, instrument))

PlayingSpeed == ~raw.null /\ Getter("playing_speed", NoArgs, playing_speed(raw))

Position ==
    /\ ~raw.null
    /\ LET r == position(raw)
       IN  /\ raw' = r.ctx
           /\ last' = Seen("position", NoArgs, r)
           /\ mark' = [base |-> r.ret.samples, frames |-> 0]
           /\ reached' = (reached \/ AtLimit(r.ctx))
    /\ UNCHANGED <<env, ch_set, ins_set>>

LatestTriggerOfInstrument == \E instrument \in 0..MaxIndex :
    ~raw.null /\ Getter("latest_trigger_of_instrument", [instrument |-> instrument],
                        latest_trigger_of_instrument(raw, instrument))

LatestTriggerOfSample == \E instrument \in 0..MaxIndex, sample \in 0..MaxIndex :
    ~raw.null /\ Getter("latest_trigger_of_sample", [instrument |-> instrument, sample |-> sample],
                        latest_trigger_of_sample(raw, instrument, sample))

LatestTriggerOfChannel == \E channel \in 0..MaxIndex :
    ~raw.null /\ Getter("latest_trigger_of_channel", [channel |-> channel],
                        latest_trigger_of_channel(raw, channel))

\* Order table indices, rows and ticks a caller seeks to (u8, u8, u16).
SeekPots == {0, 1, 255}
SeekRows == {0, 1, 255}
SeekTicks == {0, 1}

Seek == \E pot \in SeekPots, row \in SeekRows, tick \in SeekTicks :
    ~raw.null /\ Getter("seek", [pot |-> pot, row |-> row, tick |-> tick], seek(raw, pot, row, tick))

MuteChannel == \E channel \in 0..MaxIndex, mute \in BOOLEAN :
    /\ ~raw.null
    /\ LET r == mute_channel(raw, channel, mute)
       IN  /\ raw' = r.ctx
           /\ last' = Seen("mute_channel", [channel |-> channel, mute |-> mute], r)
           /\ ch_set' = IF r.panicked THEN ch_set ELSE [ch_set EXCEPT ![channel] = mute]
           /\ reached' = (reached \/ AtLimit(r.ctx))
    /\ UNCHANGED <<env, mark, ins_set>>

MuteInstrument == \E instrument \in 0..MaxIndex, mute \in BOOLEAN :
    /\ ~raw.null
    /\ LET r == mute_instrument(raw, instrument, mute)
       IN  /\ raw' = r.ctx
           /\ last' = Seen("mute_instrument", [instrument |-> instrument, mute |-> mute], r)
           /\ ins_set' = IF r.panicked THEN ins_set
                         ELSE [ins_set EXCEPT ![instrument] = mute]
           /\ reached' = (reached \/ AtLimit(r.ctx))
    /\ UNCHANGED <<env, mark, ch_set>>

\* The binding's contract surface: creation, destruction, the getters, the
\* index-taking methods and the mute switches, with playback in between.
Next ==
    \/ \E code \in Codes, song \in Songs, rate \in Rates : New(code, song, rate)
    \/ Drop
    \/ ModuleName
    \/ NumberOfChannels
    \/ ModuleLength
    \/ NumberOfPatterns
    \/ NumberOfRows
    \/ NumberOfInstruments
    \/ NumberOfSamples
    \/ PlayingSpeed
    \/ LatestTriggerOfInstrument
    \/ LatestTriggerOfSample
    \/ LatestTriggerOfChannel
    \/ MuteChannel
    \/ MuteInstrument
    \/ GenerateSamples

Spec == Init /\ [][Next]_vars

\* ----------------------------------------------------------------- playback

\* A context right after a successful XMContext::new, built with the default
\* environment.
PlayInit ==
    /\ env = "unset"
    /\ raw \in {xm_create_context(song, rate) : song \in Songs, rate \in Rates}
    /\ last = NoCall
    /\ mark = [base |-> 0, frames |-> 0]
    /\ ch_set = [c \in 1..raw.song.channels |-> FALSE]
    /\ ins_set = [i \in 1..Len(raw.song.instruments) |-> FALSE]
    /\ reached = FALSE

\* Playing, seeking and watching one context.
PlayNext ==
    \/ GenerateSamples
    \/ SetMaxLoopCount
    \/ LoopCount
    \/ Position
    \/ Seek

PlaySpec == PlayInit /\ [][PlayNext]_vars

\* ------------------------------------------------------------ long playback

\* Buffer lengths of the long playback: one frame, or four.
LoopLens == {2, 8}

LoopGenerateSamples == \E len \in LoopLens, mix \in {0, 1} :
    GenerateWithin(MaxLoopSamples, len, mix)

\* Playing one context for long, with or without a loop limit.
LoopNext ==
    \/ LoopGenerateSamples
    \/ SetMaxLoopCount
    \/ LoopCount

LoopSpec == PlayInit /\ [][LoopNext]_vars

\* ------------------------------------------------------------- properties

AllZero(buf) == \A i \in 1..Len(buf) : buf[i] = 0

\* C1: generate_samples on a buffer of even length L never panics, asks the
\* engine for L/2 frames and returns exactly L, whatever the position, the
\* loop count and the loop limit.
SampleCountLaw ==
    (last.op = "generate_samples" /\ last.args.len % 2 = 0) =>
        /\ ~last.panicked
        /\ last.ffi = <<Ffi("xm_generate_samples", [numsamples |-> last.args.len \div 2])>>
        /\ last.ret = [int |-> last.args.len]
        /\ Len(last.out) = last.args.len

\* A four-value buffer was filled while the loop limit had been reached.
SampleCountWitness ==
    /\ last.op = "generate_samples"
    /\ last.args.len = 4
    /\ last.ret = [int |-> 4]
    /\ ~raw.null
    /\ Silent(raw)
    /\ raw.loop_count > 0

\* C2: position().samples is its value when last read plus the frames asked
\* for since (half the buffer lengths), however they were split over calls.
SamplesRoundTrip ==
    ~raw.null => position(raw).ret.samples = mark.base + mark.frames

\* Frames were generated in several calls after a read of the position, and
\* the song has wrapped.
SamplesRoundTripWitness ==
    /\ ~raw.null
    /\ mark.base > 0
    /\ mark.frames >= 2
    /\ last.op = "generate_samples"
    /\ last.args.len = 2
    /\ raw.loop_count > 0

\* C3: once loop_count() has equalled a positive loop limit, every later
\* generate_samples call (the limit unchanged) fills its buffer with zeros and
\* position().samples grows by the frames asked for.
SilenceAfterExhaustion ==
    [][(/\ ~raw.null
        /\ reached
        /\ last'.op = "generate_samples"
        /\ ~last'.panicked
        /\ raw'.max_loop_count = raw.max_loop_count)
       => /\ AllZero(last'.out)
          /\ position(raw').ret.samples
               = position(raw).ret.samples + last'.args.len \div 2]_vars

\* C4: on one context position().samples and loop_count() never decrease.
CountersMonotonic ==
    [][(~raw.null /\ ~raw'.null)
       => /\ position(raw').ret.samples >= position(raw).ret.samples
          /\ loop_count(raw').ret >= loop_count(raw).ret]_vars

\* C5: XMContext::new returns a context exactly when the engine's result code
\* is 0; 1 is ModuleDataNotSane, 2 is MemoryAllocationFailed, any other code c
\* is Unknown(c); no context comes with an error.
NewResultLaw ==
    last.op = "new" =>
        LET code == last.args.code
            r == last.ret
        IN  /\ (r.tag = "Ok") <=> (code = 0)
            /\ code = 0 => (~raw.null /\ r.ctx = raw)
            /\ code = 1 => r = [tag |-> "Err", err |-> "ModuleDataNotSane"]
            /\ code = 2 => r = [tag |-> "Err", err |-> "MemoryAllocationFailed"]
            /\ code \notin {0, 1, 2} =>
                   r = [tag |-> "Err", err |-> "Unknown", code |-> code]
            /\ code # 0 => ("ctx" \notin DOMAIN r /\ raw.null)

\* The engine reported a code the binding does not know.
NewResultWitness ==
    /\ last.op = "new"
    /\ last.args.code = 3
    /\ last.ret.tag = "Err"
    /\ last.ret.err = "Unknown"
    /\ raw.null

\* The index-taking methods, and whether the index they are given is in range
\* on context c.
IndexOps ==
    {"number_of_rows", "number_of_samples", "latest_trigger_of_instrument",
     "latest_trigger_of_sample", "latest_trigger_of_channel", "mute_channel",
     "mute_instrument"}

InstrumentInRange(c, i) == 1 <= i /\ i <= number_of_instruments(c).ret
ChannelInRange(c, ch) == 1 <= ch /\ ch <= number_of_channels(c).ret

IndexInRange(c, op, args) ==
    CASE op = "number_of_rows" -> args.pattern < number_of_patterns(c).ret
      [] op \in {"number_of_samples", "latest_trigger_of_instrument", "mute_instrument"} ->
            InstrumentInRange(c, args.instrument)
      [] op \in {"latest_trigger_of_channel", "mute_channel"} ->
            ChannelInRange(c, args.channel)
      [] op = "latest_trigger_of_sample" ->
            /\ InstrumentInRange(c, args.instrument)
            /\ args.sample < number_of_samples(c, args.instrument).ret

\* The engine function behind each index-taking method.
IndexedFn(op) ==
    CASE op = "number_of_rows" -> "xm_get_number_of_rows"
      [] op = "number_of_samples" -> "xm_get_number_of_samples"
      [] op = "latest_trigger_of_instrument" -> "xm_get_latest_trigger_of_instrument"
      [] op = "latest_trigger_of_sample" -> "xm_get_latest_trigger_of_sample"
      [] op = "latest_trigger_of_channel" -> "xm_get_latest_trigger_of_channel"
      [] op = "mute_channel" -> "xm_mute_channel"
      [] op = "mute_instrument" -> "xm_mute_instrument"

StringsEnabled == env # "0"

\* C8 as stated: with strings retained module_name() is the 20 bytes of the
\* header's name field, padding included; without, none.
ModuleNameRaw ==
    (~raw.null /\ last.op = "module_name") =>
        IF StringsEnabled
        THEN last.ret = [some |-> TRUE, bytes |-> raw.song.name]
        ELSE ~last.ret.some

\* C8, amended: with strings retained module_name() is the part of the 20-byte
\* name field before its first zero byte (all of it when no byte is zero);
\* without, none.
ModuleNameCStr ==
    (~raw.null /\ last.op = "module_name") =>
        IF StringsEnabled
        THEN LET b == last.ret.bytes
                 name == raw.song.name
             IN  /\ last.ret.some
                 /\ Len(b) <= NAME_LEN
                 /\ \A i \in 1..Len(b) : b[i] = name[i] /\ b[i] # 0
                 /\ Len(b) < NAME_LEN => name[Len(b) + 1] = 0
        ELSE ~last.ret.some

\* A zero-padded name came back without its padding.
ModuleNameWitness ==
    /\ ~raw.null
    /\ last.op = "module_name"
    /\ last.ret.some
    /\ raw.song.name = NameZeroPadded
    /\ last.ret.bytes = <<65, 66>>

\* C9: whatever generate_samples and seek calls were made, position().row is
\* below the row count of position().pattern and position().pattern_index is
\* below module_length().
CursorInRange ==
    ~raw.null =>
        LET pos == position(raw).ret
        IN  /\ pos.row < xm_get_number_of_rows(raw, pos.pattern)
            /\ pos.pattern_index < module_length(raw).ret

\* The frame about to be generated is the last one of the last tick of the
\* last row of the last order table entry.
LastFrameOfSong(c) ==
    /\ c.current_table_index = c.song.length - 1
    /\ c.current_row = RowsOf(c.song, PatternAt(c.song, c.current_table_index)) - 1
    /\ c.current_tick = c.song.tempo - 1
    /\ (IF c.remaining <= 0 THEN c.remaining + 5 * c.rate ELSE c.remaining)
           - 2 * c.song.bpm <= 0

\* C10: in playback without seek, the frame that ends the last row of the last
\* order table entry moves the position to restart_position, row 0, and makes
\* loop_count() one more than before; no other frame changes loop_count().
WrapIncrementsLoopCount ==
    [][(~raw.null /\ last'.op = "generate_samples" /\ last'.args.len = 2) =>
        IF LastFrameOfSong(raw)
        THEN /\ position(raw').ret.pattern_index = raw.song.restart
             /\ position(raw').ret.row = 0
             /\ loop_count(raw').ret = loop_count(raw).ret + 1
        ELSE loop_count(raw').ret = loop_count(raw).ret]_vars

=============================================================================
